---- MODULE Spec2Model ----
(***************************************************************************)
(* Product <-> Jira issue synchronisation (ProductsService of              *)
(* src/products/products.service.ts, second definition, lines 212-482).   *)
(*                                                                         *)
(* Every request handler is an async function: the code between two        *)
(* awaits runs without interruption, and each awaited store or remote      *)
(* operation takes effect in one step.  One action of the model is one     *)
(* awaited operation together with the synchronous code that follows it    *)
(* up to the next await.  Several handlers run at once (workers).          *)
(*                                                                         *)
(* Text values are sequences of one-character strings; Null stands for     *)
(* null/undefined and Absent for a key that a DTO does not carry.          *)
(***************************************************************************)
EXTENDS Integers, Sequences, FiniteSets, TLC

\* ---- bounds -------------------------------------------------------------
MaxRequests == 3
SeqRequests == 2
MaxTime == 2

\* ---- value domains ------------------------------------------------------
Procs == {"w1", "w2"}

Null == <<"NULL">>
Absent == <<"ABSENT">>
NoKey == 0
NoTime == 0

Names == {<<"a">>, <<"b">>}
DescTexts == {<<>>, <<"y">>}
StatusNames == {"Done"}

\* JS truthiness of a string-or-null value
Truthy(s) == s # Null /\ s # Absent /\ s # <<>>

\* ---- Atlassian Document Format -------------------------------------------
TextNode(t) == [type |-> "text", text |-> t, content |-> <<>>]
Paragraph(t) == [type |-> "paragraph", text |-> Null, content |-> <<TextNode(t)>>]
Doc(blocks) == [kind |-> "doc", text |-> Null, content |-> blocks]
Str(t) == [kind |-> "str", text |-> t, content |-> <<>>]
NoDesc == [kind |-> "none", text |-> Null, content |-> <<>>]
\* a null entry of a content array
NullNode == [type |-> "null", text |-> Null, content |-> <<>>]

IsSpace(c) == c \in {" ", "\n"}

RECURSIVE TrimLeft(_)
TrimLeft(s) == IF s # <<>> /\ IsSpace(Head(s)) THEN TrimLeft(Tail(s)) ELSE s

RECURSIVE TrimRight(_)
TrimRight(s) ==
  IF s # <<>> /\ IsSpace(s[Len(s)]) THEN TrimRight(SubSeq(s, 1, Len(s) - 1)) ELSE s

Trim(s) == TrimRight(TrimLeft(s))

RECURSIVE JoinWith(_, _)
JoinWith(parts, sep) ==
  IF parts = <<>> THEN <<>>
  ELSE IF Len(parts) = 1 THEN parts[1]
  ELSE parts[1] \o sep \o JoinWith(Tail(parts), sep)

\* extractText of a block node: a block's children are leaves here
LeafText(node) == IF node.type = "text" THEN (IF Truthy(node.text) THEN node.text ELSE <<>>) ELSE <<>>


\* a walk that reads text nodes only at the top and never descends into a block
extractText_NoDescent(node) ==
  IF node.type = "text" THEN (IF Truthy(node.text) THEN node.text ELSE <<>>) ELSE <<>>

extractText(node) ==
  IF node.type = "text" THEN (IF Truthy(node.text) THEN node.text ELSE <<>>)
  ELSE JoinWith([i \in 1..Len(node.content) |-> LeafText(node.content[i])], <<>>)

extractTextFromADF(adf) ==
  IF adf.content = <<>> THEN <<>>
  ELSE Trim(JoinWith([i \in 1..Len(adf.content) |-> extractText(adf.content[i])], <<"\n">>))

\* node.type of a null node is a TypeError; a text node returns before its children are read
extractTextRaises(node) ==
  \/ node = NullNode
  \/ node.type # "text" /\ \E i \in 1..Len(node.content) : node.content[i] = NullNode

\* whether computing descriptionText raises
DescriptionRaises(d) ==
  /\ d.kind = "doc"
  /\ d.content # <<>>
  /\ \E i \in 1..Len(d.content) : extractTextRaises(d.content[i])

\* descriptionText of handleJiraWebhook
DescriptionText(d) ==
  IF d.kind = "str" THEN d.text
  ELSE IF d.kind = "doc" /\ d.content # <<>> THEN extractTextFromADF(d)
  ELSE <<>>

\* ---- records ------------------------------------------------------------
NewProduct(id, name, description) ==
  [id |-> id, name |-> name, description |-> description,
   jiraIssueKey |-> NoKey, jiraIssueId |-> NoKey, ticketStatus |-> "NULL",
   jiraSyncStatus |-> "PENDING", jiraLastSyncAt |-> NoTime, deletedAt |-> NoTime]

NoProduct == NewProduct(0, Null, Null)

CreateDtos == [name : {<<"a">>}, description : {Null, <<"x">>}]
UpdateDtos == [name : Names \cup {Absent}, description : DescTexts \cup {Absent}]
NoDto == [name |-> Absent, description |-> Absent]

PayloadDescs ==
  {NoDesc, Doc(<<Paragraph(<<"x">>)>>), Doc(<<Paragraph(<<" ">>)>>), Doc(<<NullNode>>)}
Payloads ==
  [key : 0..MaxRequests, summary : {Absent, <<"b">>},
   status : StatusNames \cup {""}, description : PayloadDescs]
NoPayload == [key |-> NoKey, summary |-> Absent, status |-> "", description |-> NoDesc]

\* filterProductResponse(product)
filterProductResponse(p) ==
  [id |-> p.id, name |-> p.name, description |-> p.description,
   jiraIssueKey |-> p.jiraIssueKey, jiraIssueId |-> p.jiraIssueId,
   jiraSyncStatus |-> p.jiraSyncStatus]

\* what jira.getIssue resolves with; key NoKey stands for null
JiraData(k) == [key |-> k]
NoTicket == JiraData(NoKey)

\* e.message of a rejected getIssue
FetchErrors == {<<"E">>}

\* filterProductWithTicket(product, ticket, jiraFetchStatus, jiraFetchError); "" and
\* Absent stand for an argument left out
filterProductWithTicket(p, ticket, jiraFetchStatus, jiraFetchError) ==
  [id |-> p.id, name |-> p.name, description |-> p.description,
   ticket |-> IF ticket # NoTicket THEN JiraData(ticket.key) ELSE NoTicket,
   jiraFetchStatus |-> jiraFetchStatus,
   jiraFetchError |-> IF jiraFetchStatus # "" /\ Truthy(jiraFetchError)
                      THEN jiraFetchError ELSE Absent]

NoResult ==
  [outcome |-> "none", deleted |-> FALSE, jiraTransitioned |-> FALSE, received |-> FALSE,
   response |-> filterProductResponse(NoProduct),
   found |-> filterProductWithTicket(NoProduct, NoTicket, "", Absent)]

\* the numeric id the tracker gives the issue with key k (data.id next to data.key)
JiraId(k) == IF k = NoKey THEN NoKey ELSE 10000 + k

\* a request to the tracker and its reply
NoCall ==
  [fn |-> "none", issueKey |-> NoKey, summary |-> Absent, description |-> Absent,
   outcome |-> "none", jiraKey |-> NoKey, jiraId |-> NoKey]

DigitChar(k) == IF k = 1 THEN "1" ELSE IF k = 2 THEN "2" ELSE IF k = 3 THEN "3" ELSE "9"
JiraIssueName(k) == <<"J", DigitChar(k)>>

VARIABLES
  store,     \* products table: store[id] is the row with primary key id
  issues,    \* remote tracker: issues[k] is the issue with key k
  now,       \* the last value new Date() returned
  pc,        \* pc[w]: where worker w is in its handler
  op,        \* op[w]: the handler worker w runs
  product,   \* product[w]: the handler's in-memory entity
  dto,       \* dto[w]: the update/create request body
  payload,   \* payload[w]: the webhook body
  result,    \* result[w]: what the handler returned or raised
  changelog, \* changelog[w]: the fields the webhook handler staged
  loaded,    \* loaded[w]: the row as update read it (history)
  writes,    \* writes[w]: repo.save calls completed by the running handler (history)
  attempt,   \* attempt[id]: outcome of the remote attempt on row id that completed last (history)
  requests,  \* handler invocations so far
  remote     \* remote[w]: the last request the running handler sent to the tracker (history)

productVars == <<store, issues, now, pc, op, product, dto, payload, result, changelog, loaded, writes, attempt, requests, remote>>

\* JiraService.updateStatus, one call at a time
VARIABLES
  env,       \* process.env: JIRA_DROPPED_TRANSITION_ID, JIRA_DROPPED_STATUS_NAME
  workflow,  \* the transitions the tracker offers for the issue right now
  jpc,       \* where the call is: "idle", "get", "post", "done"
  live,      \* transitionsData.transitions of this call
  gets,      \* GET .../transitions requests of this call (history)
  request,   \* the transition payload of this call
  posts,     \* POST .../transitions requests of this call (history)
  error,     \* what the call threw
  calls      \* calls so far

jiraVars == <<env, workflow, jpc, live, gets, request, posts, error, calls>>

\* the description on its way out through updateIssue and back through the webhook
VARIABLES
  plain,     \* dto.description
  document,  \* fields.description as sent
  decoded,   \* what extractTextFromADF makes of it
  codecAt    \* "off", "plain", "document", "decoded"

codecVars == <<plain, document, decoded, codecAt>>

serviceVars == <<jiraVars, codecVars>>

vars == <<productVars, jiraVars, codecVars>>

Ids == 1..Len(store)

\* new Date(): the clock never runs backwards
Clock == {t \in {now, now + 1} : t <= MaxTime}

\* repo.findOneBy({ id }): soft-deleted rows are not returned
FindById(id) == {i \in Ids : i = id /\ store[i].deletedAt = NoTime}

\* repo.findOneBy({ jiraIssueKey }): some live row with that key
FindByKey(k) == {i \in Ids : store[i].jiraIssueKey = k /\ store[i].deletedAt = NoTime}

\* Object.assign that copies the name only
Assign_NameOnly(p, d) ==
  [p EXCEPT !.name = IF d.name = Absent THEN @ ELSE d.name]

\* Object.assign(product, dto)
Assign(p, d) ==
  [p EXCEPT !.name = IF d.name = Absent THEN @ ELSE d.name,
            !.description = IF d.description = Absent THEN @ ELSE d.description]

\* a request is taken by the first idle worker (workers are interchangeable),
\* and MaxRequests requests arrive in all
Free(w) ==
  /\ pc[w] = "idle"
  /\ requests < MaxRequests
  /\ \A v \in Procs : (v = "w1" /\ w = "w2") => pc[v] # "idle"

ProductsInit ==
  /\ store = <<>>
  /\ issues = <<>>
  /\ now = 1
  /\ pc = [w \in Procs |-> "idle"]
  /\ op = [w \in Procs |-> "none"]
  /\ product = [w \in Procs |-> NoProduct]
  /\ dto = [w \in Procs |-> NoDto]
  /\ payload = [w \in Procs |-> NoPayload]
  /\ result = [w \in Procs |-> NoResult]
  /\ changelog = [w \in Procs |-> {}]
  /\ loaded = [w \in Procs |-> NoProduct]
  /\ writes = [w \in Procs |-> 0]
  /\ attempt = <<>>
  /\ requests = 0
  /\ remote = [w \in Procs |-> NoCall]

\* ---- createProduct ------------------------------------------------------
\* createProduct that builds the entity without saving it (repo.create for repo.save)
CreateProduct_NoSave(w, d) ==
  /\ Free(w)
  /\ requests' = requests + 1
  /\ product' = [product EXCEPT ![w] = NewProduct(Len(store) + 1, d.name, d.description)]
  /\ pc' = [pc EXCEPT ![w] = "cj_call"]
  /\ op' = [op EXCEPT ![w] = "create"]
  /\ dto' = [dto EXCEPT ![w] = d]
  /\ UNCHANGED <<store, attempt, writes, issues, now, payload, result, changelog, loaded, remote>>
  /\ UNCHANGED serviceVars

\* repo.save({ name, description, externalRef, jiraSyncStatus: 'PENDING' })
CreateProduct(w, d) ==
  /\ Free(w)
  /\ requests' = requests + 1
  /\ LET p == NewProduct(Len(store) + 1, d.name, d.description) IN
       /\ store' = Append(store, p)
       /\ product' = [product EXCEPT ![w] = p]
  /\ attempt' = Append(attempt, "NONE")
  /\ pc' = [pc EXCEPT ![w] = "cj_call"]
  /\ op' = [op EXCEPT ![w] = "create"]
  /\ dto' = [dto EXCEPT ![w] = d]
  /\ writes' = [writes EXCEPT ![w] = 1]
  /\ UNCHANGED <<issues, now, payload, result, changelog, loaded, remote>>
  /\ UNCHANGED serviceVars

\* return this.filterProductResponse(product)
Returned(p) == [NoResult EXCEPT !.outcome = "return", !.response = filterProductResponse(p)]

\* ---- createJiraIssueForProduct ------------------------------------------
\* a success branch that stores the key and forgets the id
AfterCreateIssue_NoId(p, ok, k, t) ==
  IF ok THEN [p EXCEPT !.jiraIssueKey = k, !.jiraSyncStatus = "OK", !.jiraLastSyncAt = t]
  ELSE [p EXCEPT !.jiraSyncStatus = "FAILED"]

\* the entity after jira.createIssue resolved with key k or rejected
AfterCreateIssue(p, ok, k, t) ==
  IF ok THEN [p EXCEPT !.jiraIssueKey = k, !.jiraIssueId = JiraId(k),
                       !.jiraSyncStatus = "OK", !.jiraLastSyncAt = t]
  ELSE [p EXCEPT !.jiraSyncStatus = "FAILED"]

\* JiraService.createIssue: the text of the description document it posts
\* fields.description of updateIssue
EncodeDescription(description) ==
  IF Truthy(description) THEN Doc(<<Paragraph(description)>>) ELSE NoDesc

\* the remote tracker's copy of an issue: what POST /issue stored and PUT /issue/{key} replaced
NewIssue(productId, summary, text) ==
  [productId |-> productId, summary |-> summary, description |-> EncodeDescription(text)]

\* an issue made in the tracker by hand: its content is not known to the service
HandmadeIssue == [productId |-> 0, summary |-> Null, description |-> NoDesc]

\* PUT /issue/{key} with { fields }: only the fields present in the request are replaced
PutIssue(issue, call) ==
  [issue EXCEPT !.summary = IF call.summary = Absent THEN @ ELSE call.summary,
                !.description = IF call.description = Absent THEN @
                                ELSE EncodeDescription(call.description)]

ProductIdLine(id) == <<"P", "r", "o", "d", "u", "c", "t", " ", "I", "D", ":", " ", DigitChar(id)>>

CreateIssueText(description, id) ==
  IF Truthy(description) THEN description \o <<"\n", "\n">> \o ProductIdLine(id)
  ELSE ProductIdLine(id)

\* the request createJiraIssueForProduct sends and the reply { jiraKey, jiraId }
CreateIssueCall(p, ok, k) ==
  [fn |-> "createIssue", issueKey |-> NoKey, summary |-> p.name,
   description |-> CreateIssueText(p.description, p.id),
   outcome |-> IF ok THEN "resolved" ELSE "rejected",
   jiraKey |-> IF ok THEN k ELSE NoKey, jiraId |-> IF ok THEN JiraId(k) ELSE NoKey]

\* createJiraIssueForProduct without its catch: a rejected createIssue escapes
CreateIssue_Throws(w, ok, t) ==
  /\ pc[w] = "cj_call"
  /\ remote' = [remote EXCEPT ![w] = CreateIssueCall(product[w], ok, Len(issues) + 1)]
  /\ t \in (IF ok THEN Clock ELSE {now})
  /\ issues' = IF ok THEN Append(issues, NewIssue(product[w].id, product[w].name,
                                                 CreateIssueText(product[w].description, product[w].id)))
                   ELSE issues
  /\ now' = t
  /\ attempt' = [attempt EXCEPT ![product[w].id] = IF ok THEN "OK" ELSE "FAILED"]
  /\ IF ok
     THEN /\ product' = [product EXCEPT ![w] = AfterCreateIssue(@, ok, Len(issues) + 1, t)]
          /\ pc' = [pc EXCEPT ![w] = "cj_save"]
          /\ UNCHANGED result
     ELSE /\ result' = [result EXCEPT ![w] = [NoResult EXCEPT !.outcome = "Error"]]
          /\ pc' = [pc EXCEPT ![w] = "done"]
          /\ UNCHANGED product
  /\ UNCHANGED <<store, op, dto, payload, changelog, loaded, writes, requests>>
  /\ UNCHANGED serviceVars

CreateIssue(w, ok, t) ==
  /\ pc[w] = "cj_call"
  /\ remote' = [remote EXCEPT ![w] = CreateIssueCall(product[w], ok, Len(issues) + 1)]
  /\ t \in (IF ok THEN Clock ELSE {now})
  /\ issues' = IF ok THEN Append(issues, NewIssue(product[w].id, product[w].name,
                                                 CreateIssueText(product[w].description, product[w].id)))
                   ELSE issues
  /\ product' = [product EXCEPT ![w] = AfterCreateIssue(@, ok, Len(issues) + 1, t)]
  /\ now' = t
  /\ attempt' = [attempt EXCEPT ![product[w].id] = IF ok THEN "OK" ELSE "FAILED"]
  /\ pc' = [pc EXCEPT ![w] = "cj_save"]
  /\ UNCHANGED <<store, op, dto, payload, result, changelog, loaded, writes, requests>>
  /\ UNCHANGED serviceVars

CreateIssueSave(w) ==
  /\ pc[w] = "cj_save"
  /\ store' = [store EXCEPT ![product[w].id] = product[w]]
  /\ writes' = [writes EXCEPT ![w] = @ + 1]
  /\ result' = [result EXCEPT ![w] = Returned(product[w])]
  /\ pc' = [pc EXCEPT ![w] = "done"]
  /\ UNCHANGED <<issues, now, op, product, dto, payload, changelog, loaded, attempt, requests, remote>>
  /\ UNCHANGED serviceVars

\* ---- update -------------------------------------------------------------
\* update that goes on with a fresh entity when no record has the id
UpdateFind_Upserts(w, id, d) ==
  /\ Free(w)
  /\ requests' = requests + 1
  /\ op' = [op EXCEPT ![w] = "update"]
  /\ dto' = [dto EXCEPT ![w] = d]
  /\ LET found == IF FindById(id) = {} THEN NewProduct(id, Null, Null) ELSE store[id] IN
       /\ product' = [product EXCEPT ![w] = Assign(found, d)]
       /\ loaded' = [loaded EXCEPT ![w] = found]
  /\ pc' = [pc EXCEPT ![w] = "up_save"]
  /\ UNCHANGED <<result, store, issues, now, payload, changelog, writes, attempt, remote>>
  /\ UNCHANGED serviceVars

\* findOneBy({ id }), NotFoundException, Object.assign(product, dto)
UpdateFind(w, id, d) ==
  /\ Free(w)
  /\ requests' = requests + 1
  /\ op' = [op EXCEPT ![w] = "update"]
  /\ dto' = [dto EXCEPT ![w] = d]
  /\ IF FindById(id) = {}
     THEN /\ result' = [result EXCEPT ![w] = [NoResult EXCEPT !.outcome = "NotFound"]]
          /\ pc' = [pc EXCEPT ![w] = "done"]
          /\ UNCHANGED <<product, loaded>>
     ELSE /\ product' = [product EXCEPT ![w] = Assign(store[id], d)]
          /\ loaded' = [loaded EXCEPT ![w] = store[id]]
          /\ pc' = [pc EXCEPT ![w] = "up_save"]
          /\ UNCHANGED result
  /\ UNCHANGED <<store, issues, now, payload, changelog, writes, attempt, remote>>
  /\ UNCHANGED serviceVars

\* update that calls updateIssue whether or not the record has a key
UpdateSave_AlwaysUpdates(w) ==
  /\ pc[w] = "up_save"
  /\ store' = [store EXCEPT ![product[w].id] = product[w]]
  /\ writes' = [writes EXCEPT ![w] = @ + 1]
  /\ pc' = [pc EXCEPT ![w] = "up_call"]
  /\ UNCHANGED <<issues, now, op, product, dto, payload, result, changelog, loaded, attempt, requests, remote>>
  /\ UNCHANGED serviceVars

\* await this.repo.save(product), then the branch on product.jiraIssueKey
UpdateSave(w) ==
  /\ pc[w] = "up_save"
  /\ store' = [store EXCEPT ![product[w].id] = product[w]]
  /\ writes' = [writes EXCEPT ![w] = @ + 1]
  /\ pc' = [pc EXCEPT ![w] = IF product[w].jiraIssueKey # NoKey THEN "up_call" ELSE "cj_call"]
  /\ UNCHANGED <<issues, now, op, product, dto, payload, result, changelog, loaded, attempt, requests, remote>>
  /\ UNCHANGED serviceVars

\* the entity after jira.updateIssue resolved or rejected
AfterUpdateIssue(p, ok, t) ==
  IF ok THEN [p EXCEPT !.jiraSyncStatus = "OK", !.jiraLastSyncAt = t]
  ELSE [p EXCEPT !.jiraSyncStatus = "FAILED"]

\* the request update sends: JiraService.updateIssue puts a field only if it is truthy
UpdateIssueCall(p, ok) ==
  [fn |-> "updateIssue", issueKey |-> p.jiraIssueKey,
   summary |-> IF Truthy(p.name) THEN p.name ELSE Absent,
   description |-> IF Truthy(p.description) THEN p.description ELSE Absent,
   outcome |-> IF ok THEN "resolved" ELSE "rejected", jiraKey |-> NoKey, jiraId |-> NoKey]

\* update without its catch: a rejected updateIssue escapes
UpdateIssue_Throws(w, ok, t) ==
  /\ pc[w] = "up_call"
  /\ remote' = [remote EXCEPT ![w] = UpdateIssueCall(product[w], ok)]
  /\ t \in (IF ok THEN Clock ELSE {now})
  /\ now' = t
  /\ attempt' = [attempt EXCEPT ![product[w].id] = IF ok THEN "OK" ELSE "FAILED"]
  /\ IF ok
     THEN /\ product' = [product EXCEPT ![w] = AfterUpdateIssue(@, ok, t)]
          /\ pc' = [pc EXCEPT ![w] = "up_sync"]
          /\ UNCHANGED result
     ELSE /\ result' = [result EXCEPT ![w] = [NoResult EXCEPT !.outcome = "Error"]]
          /\ pc' = [pc EXCEPT ![w] = "done"]
          /\ UNCHANGED product
  /\ issues' = IF ok THEN [issues EXCEPT ![product[w].jiraIssueKey] = PutIssue(@, UpdateIssueCall(product[w], ok))]
                   ELSE issues
  /\ UNCHANGED <<store, op, dto, payload, changelog, loaded, writes, requests>>
  /\ UNCHANGED serviceVars

UpdateIssue(w, ok, t) ==
  /\ pc[w] = "up_call"
  /\ remote' = [remote EXCEPT ![w] = UpdateIssueCall(product[w], ok)]
  /\ t \in (IF ok THEN Clock ELSE {now})
  /\ product' = [product EXCEPT ![w] = AfterUpdateIssue(@, ok, t)]
  /\ now' = t
  /\ attempt' = [attempt EXCEPT ![product[w].id] = IF ok THEN "OK" ELSE "FAILED"]
  /\ pc' = [pc EXCEPT ![w] = "up_sync"]
  /\ issues' = IF ok THEN [issues EXCEPT ![product[w].jiraIssueKey] = PutIssue(@, UpdateIssueCall(product[w], ok))]
                   ELSE issues
  /\ UNCHANGED <<store, op, dto, payload, result, changelog, loaded, writes, requests>>
  /\ UNCHANGED serviceVars

UpdateIssueSave(w) ==
  /\ pc[w] = "up_sync"
  /\ store' = [store EXCEPT ![product[w].id] = product[w]]
  /\ writes' = [writes EXCEPT ![w] = @ + 1]
  /\ result' = [result EXCEPT ![w] = Returned(product[w])]
  /\ pc' = [pc EXCEPT ![w] = "done"]
  /\ UNCHANGED <<issues, now, op, product, dto, payload, changelog, loaded, attempt, requests, remote>>
  /\ UNCHANGED serviceVars

\* ---- remove -------------------------------------------------------------
\* remove that calls updateStatus whether or not the record has a key
RemoveFind_NoKeyCheck(w, id, t) ==
  /\ Free(w)
  /\ requests' = requests + 1
  /\ op' = [op EXCEPT ![w] = "remove"]
  /\ t = now
  /\ IF FindById(id) = {}
     THEN /\ result' = [result EXCEPT ![w] = [NoResult EXCEPT !.outcome = "NotFound"]]
          /\ pc' = [pc EXCEPT ![w] = "done"]
          /\ UNCHANGED product
     ELSE /\ product' = [product EXCEPT ![w] = store[id]]
          /\ pc' = [pc EXCEPT ![w] = "rm_call"]
          /\ UNCHANGED result
  /\ UNCHANGED <<now, store, issues, dto, payload, changelog, loaded, writes, attempt, remote>>
  /\ UNCHANGED serviceVars

\* findOneBy({ id }), NotFoundException, the branch on product.jiraIssueKey
RemoveFind(w, id, t) ==
  /\ Free(w)
  /\ requests' = requests + 1
  /\ op' = [op EXCEPT ![w] = "remove"]
  /\ IF FindById(id) = {}
     THEN /\ t = now
          /\ result' = [result EXCEPT ![w] = [NoResult EXCEPT !.outcome = "NotFound"]]
          /\ pc' = [pc EXCEPT ![w] = "done"]
          /\ UNCHANGED product
     ELSE /\ IF store[id].jiraIssueKey # NoKey
             THEN /\ t = now
                  /\ product' = [product EXCEPT ![w] = store[id]]
                  /\ pc' = [pc EXCEPT ![w] = "rm_call"]
             ELSE /\ t \in Clock
                  /\ product' = [product EXCEPT ![w] = [store[id] EXCEPT !.deletedAt = t]]
                  /\ pc' = [pc EXCEPT ![w] = "rm_save"]
          /\ UNCHANGED result
  /\ now' = t
  /\ UNCHANGED <<store, issues, dto, payload, changelog, loaded, writes, attempt, remote>>
  /\ UNCHANGED serviceVars

\* the entity after jira.updateStatus resolved or rejected, and deletedAt = new Date()
AfterUpdateStatus(p, ok, t, td) ==
  IF ok THEN [p EXCEPT !.jiraSyncStatus = "OK", !.jiraLastSyncAt = t, !.deletedAt = td]
  ELSE [p EXCEPT !.jiraSyncStatus = "FAILED", !.deletedAt = td]

\* the request remove sends
UpdateStatusCall(p, ok) ==
  [NoCall EXCEPT !.fn = "updateStatus", !.issueKey = p.jiraIssueKey,
                 !.outcome = IF ok THEN "resolved" ELSE "rejected"]

\* remove that lets a rejected updateStatus escape (no try/catch around the call)
UpdateStatus_Throws(w, ok, t, td) ==
  /\ pc[w] = "rm_call"
  /\ remote' = [remote EXCEPT ![w] = UpdateStatusCall(product[w], ok)]
  /\ t \in (IF ok THEN Clock ELSE {now})
  /\ td \in (IF ok THEN {x \in {t, t + 1} : x <= MaxTime} ELSE {now})
  /\ now' = td
  /\ attempt' = [attempt EXCEPT ![product[w].id] = IF ok THEN "OK" ELSE "FAILED"]
  /\ IF ok
     THEN /\ product' = [product EXCEPT ![w] = [@ EXCEPT !.jiraSyncStatus = "OK", !.jiraLastSyncAt = t, !.deletedAt = td]]
          /\ pc' = [pc EXCEPT ![w] = "rm_save"]
          /\ UNCHANGED result
     ELSE /\ result' = [result EXCEPT ![w] = [NoResult EXCEPT !.outcome = "Error"]]
          /\ pc' = [pc EXCEPT ![w] = "done"]
          /\ UNCHANGED product
  /\ UNCHANGED <<store, issues, op, dto, payload, changelog, loaded, writes, requests>>
  /\ UNCHANGED serviceVars

UpdateStatus(w, ok, t, td) ==
  /\ pc[w] = "rm_call"
  /\ remote' = [remote EXCEPT ![w] = UpdateStatusCall(product[w], ok)]
  /\ t \in (IF ok THEN Clock ELSE {now})
  /\ td \in {x \in {t, t + 1} : x <= MaxTime}
  /\ product' = [product EXCEPT ![w] = AfterUpdateStatus(@, ok, t, td)]
  /\ now' = td
  /\ attempt' = [attempt EXCEPT ![product[w].id] = IF ok THEN "OK" ELSE "FAILED"]
  /\ pc' = [pc EXCEPT ![w] = "rm_save"]
  /\ UNCHANGED <<store, issues, op, dto, payload, result, changelog, loaded, writes, requests>>
  /\ UNCHANGED serviceVars

\* the object remove returns
RemoveResult(p) ==
  [NoResult EXCEPT !.outcome = "return", !.deleted = TRUE,
                   !.jiraTransitioned = (p.jiraIssueKey # NoKey)]

RemoveSave(w) ==
  /\ pc[w] = "rm_save"
  /\ store' = [store EXCEPT ![product[w].id] = product[w]]
  /\ writes' = [writes EXCEPT ![w] = @ + 1]
  /\ result' = [result EXCEPT ![w] = RemoveResult(product[w])]
  /\ pc' = [pc EXCEPT ![w] = "done"]
  /\ UNCHANGED <<issues, now, op, product, dto, payload, changelog, loaded, attempt, requests, remote>>
  /\ UNCHANGED serviceVars

\* ---- handleJiraWebhook --------------------------------------------------
Received == [NoResult EXCEPT !.outcome = "return", !.received = TRUE]
\* the handler's promise rejects with the TypeError; the controller returns that promise
Raised == [NoResult EXCEPT !.outcome = "TypeError"]

\* a back-fill that drops the status of the notification
BackFill_NoStatus(pl, t) ==
  [id |-> 0,
   name |-> IF Truthy(pl.summary) THEN pl.summary ELSE JiraIssueName(pl.key),
   description |-> DescriptionText(pl.description),
   jiraIssueKey |-> pl.key,
   jiraIssueId |-> JiraId(pl.key),
   ticketStatus |-> "NULL",
   jiraSyncStatus |-> "OK", jiraLastSyncAt |-> t, deletedAt |-> NoTime]

\* the record the handler creates for an unknown key (id is set by the store)
BackFill(pl, t) ==
  [id |-> 0,
   name |-> IF Truthy(pl.summary) THEN pl.summary ELSE JiraIssueName(pl.key),
   description |-> DescriptionText(pl.description),
   jiraIssueKey |-> pl.key,
   jiraIssueId |-> JiraId(pl.key),
   ticketStatus |-> IF pl.status # "" THEN pl.status ELSE "NULL",
   jiraSyncStatus |-> "OK", jiraLastSyncAt |-> t, deletedAt |-> NoTime]

\* the staged updates: the fields of the payload that differ from the record
NameChanged(p, pl) == Truthy(pl.summary) /\ pl.summary # p.name
StatusChanged(p, pl) == pl.status # "" /\ pl.status # p.ticketStatus
\* the description test without its `descriptionText &&`
DescriptionChanged_NoGuard(p, pl) == DescriptionText(pl.description) # p.description

DescriptionChanged(p, pl) ==
  Truthy(DescriptionText(pl.description)) /\ DescriptionText(pl.description) # p.description


\* a diff that stages the status whenever the payload carries one
Changelog_AlwaysStatus(p, pl) ==
  {f \in {"name", "ticketStatus", "description"} :
     \/ f = "name" /\ NameChanged(p, pl)
     \/ f = "ticketStatus" /\ pl.status # ""
     \/ f = "description" /\ DescriptionChanged(p, pl)}

Changelog(p, pl) ==
  {f \in {"name", "ticketStatus", "description"} :
     \/ f = "name" /\ NameChanged(p, pl)
     \/ f = "ticketStatus" /\ StatusChanged(p, pl)
     \/ f = "description" /\ DescriptionChanged(p, pl)}

\* an update that maps the payload onto the record the way the back-fill does
ApplyUpdates_Overwrite(p, pl, t) ==
  [p EXCEPT !.name = IF Truthy(pl.summary) THEN pl.summary ELSE JiraIssueName(pl.key),
            !.ticketStatus = IF pl.status # "" THEN pl.status ELSE "NULL",
            !.description = DescriptionText(pl.description),
            !.jiraLastSyncAt = t, !.jiraSyncStatus = "OK"]

\* Object.assign(product, updates); jiraLastSyncAt = new Date(); jiraSyncStatus = 'OK'
ApplyUpdates(p, pl, t) ==
  [p EXCEPT !.name = IF NameChanged(p, pl) THEN pl.summary ELSE @,
            !.ticketStatus = IF StatusChanged(p, pl) THEN pl.status ELSE @,
            !.description = IF DescriptionChanged(p, pl) THEN DescriptionText(pl.description) ELSE @,
            !.jiraLastSyncAt = t, !.jiraSyncStatus = "OK"]


\* a handler that stages the changed fields but leaves the sync bookkeeping as read
WebhookDiff_KeepsSyncFields(w, p, pl, t) ==
  /\ changelog' = [changelog EXCEPT ![w] = Changelog(p, pl)]
  /\ IF Changelog(p, pl) # {}
     THEN /\ t \in Clock
          /\ product' = [product EXCEPT ![w] =
                           [ApplyUpdates(p, pl, t) EXCEPT !.jiraLastSyncAt = p.jiraLastSyncAt,
                                                          !.jiraSyncStatus = p.jiraSyncStatus]]
          /\ pc' = [pc EXCEPT ![w] = "wh_save"]
          /\ UNCHANGED result
     ELSE /\ t = now
          /\ product' = [product EXCEPT ![w] = p]
          /\ result' = [result EXCEPT ![w] = Received]
          /\ pc' = [pc EXCEPT ![w] = "done"]

\* steps 3 and 4 of the handler on the record p it holds: diff, then save or return
WebhookDiff(w, p, pl, t) ==
  /\ changelog' = [changelog EXCEPT ![w] = Changelog(p, pl)]
  /\ IF Changelog(p, pl) # {}
     THEN /\ t \in Clock
          /\ product' = [product EXCEPT ![w] = ApplyUpdates(p, pl, t)]
          /\ pc' = [pc EXCEPT ![w] = "wh_save"]
          /\ UNCHANGED result
     ELSE /\ t = now
          /\ product' = [product EXCEPT ![w] = p]
          /\ result' = [result EXCEPT ![w] = Received]
          /\ pc' = [pc EXCEPT ![w] = "done"]

\* the handler without its key check: a payload without key is looked up like any other
WebhookFind_NoKeyCheck(w, pl, t) ==
  /\ Free(w)
  /\ requests' = requests + 1
  /\ op' = [op EXCEPT ![w] = "webhook"]
  /\ payload' = [payload EXCEPT ![w] = pl]
  /\ now' = t
  /\ pl.key <= Len(issues) + 1
  /\ issues' = IF pl.key > Len(issues) THEN Append(issues, HandmadeIssue) ELSE issues
  /\ IF DescriptionRaises(pl.description)
     THEN /\ t = now
          /\ result' = [result EXCEPT ![w] = Raised]
          /\ pc' = [pc EXCEPT ![w] = "done"]
          /\ UNCHANGED <<product, changelog>>
     ELSE IF FindByKey(pl.key) = {}
     THEN /\ t \in Clock
          /\ product' = [product EXCEPT ![w] = BackFill(pl, t)]
          /\ pc' = [pc EXCEPT ![w] = "wh_create"]
          /\ UNCHANGED <<result, changelog>>
     ELSE \E i \in FindByKey(pl.key) : WebhookDiff(w, store[i], pl, t)
  /\ UNCHANGED <<store, dto, loaded, writes, attempt, remote>>
  /\ UNCHANGED serviceVars

\* the handler up to its first save: key check, findOneBy({ jiraIssueKey }), diff
WebhookFind(w, pl, t) ==
  /\ Free(w)
  /\ requests' = requests + 1
  /\ op' = [op EXCEPT ![w] = "webhook"]
  /\ payload' = [payload EXCEPT ![w] = pl]
  /\ now' = t
  /\ IF pl.key = NoKey
     THEN /\ t = now
          /\ result' = [result EXCEPT ![w] = Received]
          /\ pc' = [pc EXCEPT ![w] = "done"]
          /\ UNCHANGED <<product, changelog, issues>>
     ELSE /\ pl.key <= Len(issues) + 1
          \* a key the tracker has not handed out yet belongs to an issue made there by hand
          /\ issues' = IF pl.key > Len(issues) THEN Append(issues, HandmadeIssue) ELSE issues
          \* descriptionText is computed before the first write on either path (lines 304-310,
          \* 345-351); nothing catches what extractTextFromADF raises
          /\ IF DescriptionRaises(pl.description)
             THEN /\ t = now
                  /\ result' = [result EXCEPT ![w] = Raised]
                  /\ pc' = [pc EXCEPT ![w] = "done"]
                  /\ UNCHANGED <<product, changelog>>
             ELSE IF FindByKey(pl.key) = {}
             THEN /\ t \in Clock
                  /\ product' = [product EXCEPT ![w] = BackFill(pl, t)]
                  /\ pc' = [pc EXCEPT ![w] = "wh_create"]
                  /\ UNCHANGED <<result, changelog>>
             ELSE \E i \in FindByKey(pl.key) : WebhookDiff(w, store[i], pl, t)
  /\ UNCHANGED <<store, dto, loaded, writes, attempt, remote>>
  /\ UNCHANGED serviceVars

\* a back-fill that builds the record without saving it (repo.create for repo.save)
WebhookCreate_NoSave(w, t) ==
  /\ pc[w] = "wh_create"
  /\ WebhookDiff(w, [product[w] EXCEPT !.id = Len(store) + 1], payload[w], t)
  /\ now' = t
  /\ UNCHANGED <<store, attempt, writes, issues, op, dto, payload, loaded, requests, remote>>
  /\ UNCHANGED serviceVars

\* the back-fill save, then the diff of the payload against the saved record
WebhookCreate(w, t) ==
  /\ pc[w] = "wh_create"
  /\ LET saved == [product[w] EXCEPT !.id = Len(store) + 1] IN
       /\ store' = Append(store, saved)
       /\ WebhookDiff(w, saved, payload[w], t)
  /\ now' = t
  /\ attempt' = Append(attempt, "NONE")
  /\ writes' = [writes EXCEPT ![w] = @ + 1]
  /\ UNCHANGED <<issues, op, dto, payload, loaded, requests, remote>>
  /\ UNCHANGED serviceVars


\* a handler that pushes what it has just written back to the tracker
WebhookSave_Echoes(w) ==
  /\ pc[w] = "wh_save"
  /\ store' = [store EXCEPT ![product[w].id] = product[w]]
  /\ writes' = [writes EXCEPT ![w] = @ + 1]
  /\ pc' = [pc EXCEPT ![w] = "up_call"]
  /\ UNCHANGED <<issues, now, op, product, dto, payload, result, changelog, loaded, attempt,
                 requests, remote>>
  /\ UNCHANGED serviceVars

WebhookSave(w) ==
  /\ pc[w] = "wh_save"
  /\ store' = [store EXCEPT ![product[w].id] = product[w]]
  /\ writes' = [writes EXCEPT ![w] = @ + 1]
  /\ result' = [result EXCEPT ![w] = Received]
  /\ pc' = [pc EXCEPT ![w] = "done"]
  /\ UNCHANGED <<issues, now, op, product, dto, payload, changelog, loaded, attempt, requests, remote>>
  /\ UNCHANGED serviceVars


\* ---- findProduct --------------------------------------------------------
\* repo.findOne({ where: { id }, withDeleted: false }) and the branch on the key
FindProduct(w, id) ==
  /\ Free(w)
  /\ requests' = requests + 1
  /\ op' = [op EXCEPT ![w] = "find"]
  /\ IF FindById(id) = {}
     THEN /\ result' = [result EXCEPT ![w] = [NoResult EXCEPT !.outcome = "NotFound"]]
          /\ pc' = [pc EXCEPT ![w] = "done"]
          /\ UNCHANGED <<product, loaded>>
     ELSE /\ product' = [product EXCEPT ![w] = store[id]]
          /\ loaded' = [loaded EXCEPT ![w] = store[id]]
          /\ IF store[id].jiraIssueKey = NoKey
             THEN /\ result' = [result EXCEPT ![w] =
                                  [NoResult EXCEPT !.outcome = "return",
                                     !.found = filterProductWithTicket(store[id], NoTicket, "NO_KEY", Absent)]]
                  /\ pc' = [pc EXCEPT ![w] = "done"]
             ELSE /\ pc' = [pc EXCEPT ![w] = "fp_call"]
                  /\ UNCHANGED result
  /\ UNCHANGED <<store, issues, now, dto, payload, changelog, writes, attempt, remote>>
  /\ UNCHANGED serviceVars

GetIssueCall(p, ok) ==
  [NoCall EXCEPT !.fn = "getIssue", !.issueKey = p.jiraIssueKey,
                 !.outcome = IF ok THEN "resolved" ELSE "rejected",
                 !.jiraKey = IF ok THEN p.jiraIssueKey ELSE NoKey]

\* findProduct without its catch: a rejected getIssue escapes
GetIssue_Throws(w, ok, e) ==
  /\ pc[w] = "fp_call"
  /\ remote' = [remote EXCEPT ![w] = GetIssueCall(product[w], ok)]
  /\ result' = [result EXCEPT ![w] =
                  IF ok
                  THEN [NoResult EXCEPT !.outcome = "return",
                          !.found = filterProductWithTicket(product[w], JiraData(product[w].jiraIssueKey), "", Absent)]
                  ELSE [NoResult EXCEPT !.outcome = "Error"]]
  /\ pc' = [pc EXCEPT ![w] = "done"]
  /\ UNCHANGED <<store, issues, now, op, product, dto, payload, changelog, loaded, writes, attempt,
                 requests>>
  /\ UNCHANGED serviceVars

\* jira.getIssue(product.jiraIssueKey) resolves or rejects with message e
GetIssue(w, ok, e) ==
  /\ pc[w] = "fp_call"
  /\ remote' = [remote EXCEPT ![w] = GetIssueCall(product[w], ok)]
  /\ result' = [result EXCEPT ![w] =
                  [NoResult EXCEPT !.outcome = "return",
                     !.found = IF ok
                               THEN filterProductWithTicket(product[w], JiraData(product[w].jiraIssueKey), "", Absent)
                               ELSE filterProductWithTicket(product[w], NoTicket, "FAILED", e)]]
  /\ pc' = [pc EXCEPT ![w] = "done"]
  /\ UNCHANGED <<store, issues, now, op, product, dto, payload, changelog, loaded, writes, attempt,
                 requests>>
  /\ UNCHANGED serviceVars

\* ---- handler epilogue ---------------------------------------------------
Return(w) ==
  /\ pc[w] = "done"
  /\ pc' = [pc EXCEPT ![w] = "idle"]
  /\ op' = [op EXCEPT ![w] = "none"]
  /\ product' = [product EXCEPT ![w] = NoProduct]
  /\ dto' = [dto EXCEPT ![w] = NoDto]
  /\ payload' = [payload EXCEPT ![w] = NoPayload]
  /\ result' = [result EXCEPT ![w] = NoResult]
  /\ changelog' = [changelog EXCEPT ![w] = {}]
  /\ loaded' = [loaded EXCEPT ![w] = NoProduct]
  /\ writes' = [writes EXCEPT ![w] = 0]
  /\ remote' = [remote EXCEPT ![w] = NoCall]
  /\ UNCHANGED <<store, issues, now, attempt, requests>>
  /\ UNCHANGED serviceVars

\* ---- JiraService.updateStatus -------------------------------------------
MaxCalls == 2

Digits == <<"0", "1", "2", "3", "4", "5", "6", "7", "8", "9">>

\* String(n) of a non-negative integer
RECURSIVE Decimal(_)
Decimal(n) ==
  IF n < 10 THEN <<Digits[n + 1]>> ELSE Decimal(n \div 10) \o <<Digits[(n % 10) + 1]>>

\* a transition id as the tracker returns it: a JSON number or a JSON string
NumberId(n) == [type |-> "number", n |-> n, s |-> <<>>]
StringId(s) == [type |-> "string", n |-> 0, s |-> s]

\* String(value)
JsString(v) == IF v.type = "number" THEN Decimal(v.n) ELSE v.s

JsLowerChar(c) ==
  IF c = "C" THEN "c" ELSE IF c = "D" THEN "d" ELSE IF c = "F" THEN "f"
  ELSE IF c = "L" THEN "l" ELSE IF c = "O" THEN "o" ELSE IF c = "P" THEN "p"
  ELSE IF c = "R" THEN "r" ELSE IF c = "S" THEN "s" ELSE IF c = "E" THEN "e"
  ELSE IF c = "X" THEN "x" ELSE IF c = "I" THEN "i" ELSE c

toLowerCase(s) == [i \in 1..Len(s) |-> JsLowerChar(s[i])]

includes(s, sub) ==
  \E i \in 1..(Len(s) + 1) :
    i + Len(sub) - 1 <= Len(s) /\ SubSeq(s, i, i + Len(sub) - 1) = sub

\* targetTransition.fields.resolution; present = FALSE when the transition has no such field
NoResolutionField == [present |-> FALSE, required |-> FALSE, allowedValues |-> <<>>]
ResolutionField(required, allowedValues) ==
  [present |-> TRUE, required |-> required, allowedValues |-> allowedValues]

ResolutionFixed == [id |-> 1, name |-> <<"F", "i", "x", "e", "d">>]
ResolutionDropped == [id |-> 2, name |-> <<"D", "r", "o", "p", "p", "e", "d">>]

\* to = "" stands for a transition without destination (t.to undefined)
Transition(id, name, to, resolution) ==
  [id |-> id, name |-> name, to |-> to, resolution |-> resolution]

Transitions ==
  {Transition(NumberId(31), "Start", "In Progress", NoResolutionField),
   Transition(StringId(<<"3", "1">>), "Dropped", "", ResolutionField(TRUE, <<>>)),
   Transition(StringId(<<"4", "1">>), "Drop Issue", "Dropped",
              ResolutionField(TRUE, <<ResolutionFixed, ResolutionDropped>>)),
   Transition(NumberId(51), "Close Issue", "Dropped", ResolutionField(TRUE, <<ResolutionFixed>>))}

MaxTransitions == 2

Workflows == UNION {[1..n -> Transitions] : n \in 0..MaxTransitions}

\* "" is the empty string, Absent the unset variable
Envs ==
  [transitionId : {Absent, <<>>, <<"3", "1">>, <<"6", "1">>}, statusName : {"", "Dropped"}]

NoRequest == [id |-> NumberId(0), resolution |-> 0]

NoError == [kind |-> "none", requestedId |-> Absent, requestedStatus |-> "", available |-> <<>>]

\* Array.prototype.find over the indices that match: the first of them, 0 for undefined
FindIndex(found) ==
  IF found = {} THEN 0 ELSE CHOOSE i \in found : \A j \in found : i <= j

MatchesId(t, transitionId) == JsString(t.id) = transitionId


\* a search that looks at the destination only, not at the transition's own name
MatchesStatus_DestinationOnly(t, statusName) == t.to = statusName

MatchesStatus(t, statusName) == t.to = statusName \/ t.name = statusName

\* the search for a transition that goes straight to the status name when the id
\* is not in the list
TargetTransition_FallsBackToName(transitions, transitionId, statusName) ==
  LET byId == FindIndex({i \in 1..Len(transitions) : MatchesId(transitions[i], transitionId)})
      byName == FindIndex({i \in 1..Len(transitions) : MatchesStatus(transitions[i], statusName)})
  IN IF Truthy(transitionId) /\ byId # 0 THEN byId ELSE IF statusName # "" THEN byName ELSE 0

\* targetTransition, as an index into the list (0: none)
TargetTransition(transitions, transitionId, statusName) ==
  IF Truthy(transitionId)
  THEN FindIndex({i \in 1..Len(transitions) : MatchesId(transitions[i], transitionId)})
  ELSE FindIndex({i \in 1..Len(transitions) : MatchesStatus(transitions[i], statusName)})

\* availableTransitions of the error message, entry by entry
AvailableTransitions(transitions) ==
  [i \in 1..Len(transitions) |->
     [id |-> JsString(transitions[i].id), name |-> transitions[i].name,
      to |-> IF transitions[i].to = "" THEN "N/A" ELSE transitions[i].to]]

TransitionUnavailable(transitions, transitionId, statusName) ==
  [kind |-> "TransitionUnavailable",
   requestedId |-> IF Truthy(transitionId) THEN transitionId ELSE Absent,
   requestedStatus |-> IF Truthy(transitionId) THEN "" ELSE statusName,
   available |-> AvailableTransitions(transitions)]

IsDroppedResolution(r) ==
  \/ includes(toLowerCase(r.name), <<"d", "r", "o", "p">>)
  \/ includes(toLowerCase(r.name), <<"c", "a", "n", "c", "e", "l">>)
  \/ includes(toLowerCase(r.name), <<"c", "l", "o", "s", "e">>)


\* a choice that takes the first allowed value without looking at the names
DroppedResolution_AlwaysFirst(t) ==
  IF t.resolution.present /\ t.resolution.required /\ t.resolution.allowedValues # <<>>
  THEN t.resolution.allowedValues[1].id
  ELSE 0

\* droppedResolution's id, 0 when the payload gets no resolution
DroppedResolution(t) ==
  IF t.resolution.present /\ t.resolution.required /\ t.resolution.allowedValues # <<>>
  THEN LET i == FindIndex({j \in 1..Len(t.resolution.allowedValues) :
                            IsDroppedResolution(t.resolution.allowedValues[j])})
       IN t.resolution.allowedValues[IF i = 0 THEN 1 ELSE i].id
  ELSE 0

TransitionPayload(t) == [id |-> t.id, resolution |-> DroppedResolution(t)]

JiraIdle ==
  /\ env = [transitionId |-> Absent, statusName |-> ""]
  /\ workflow = <<>>
  /\ jpc = "idle"
  /\ live = <<>>
  /\ gets = 0
  /\ request = NoRequest
  /\ posts = 0
  /\ error = NoError
  /\ calls = 0

\* updateStatus up to its first await
StatusStart ==
  /\ jpc = "idle"
  /\ calls < MaxCalls
  /\ calls' = calls + 1
  /\ IF ~Truthy(env.transitionId) /\ env.statusName = ""
     THEN /\ error' = [NoError EXCEPT !.kind = "NotConfigured"]
          /\ jpc' = "done"
     ELSE /\ error' = NoError
          /\ jpc' = "get"
  /\ UNCHANGED <<env, workflow, live, gets, request, posts, productVars, codecVars>>

\* a call that posts the configured id whether or not the tracker offers it
GetTransitions_TrustsConfig(ok) ==
  /\ jpc = "get"
  /\ gets' = gets + 1
  /\ IF ~ok
     THEN /\ error' = [NoError EXCEPT !.kind = "GetFailed"]
          /\ jpc' = "done"
          /\ UNCHANGED <<live, request>>
     ELSE /\ live' = workflow
          /\ LET i == TargetTransition(workflow, env.transitionId, env.statusName)
             IN IF i = 0 /\ ~Truthy(env.transitionId)
                THEN /\ error' = TransitionUnavailable(workflow, env.transitionId, env.statusName)
                     /\ jpc' = "done"
                     /\ UNCHANGED request
                ELSE /\ request' = IF i = 0 THEN [id |-> StringId(env.transitionId), resolution |-> 0]
                                   ELSE TransitionPayload(workflow[i])
                     /\ jpc' = "post"
                     /\ UNCHANGED error
  /\ UNCHANGED <<env, workflow, posts, calls, productVars, codecVars>>

\* the GET of the transitions answers; on success the target is resolved and the payload built
GetTransitions(ok) ==
  /\ jpc = "get"
  /\ gets' = gets + 1
  /\ IF ~ok
     THEN /\ error' = [NoError EXCEPT !.kind = "GetFailed"]
          /\ jpc' = "done"
          /\ UNCHANGED <<live, request>>
     ELSE /\ live' = workflow
          /\ LET i == TargetTransition(workflow, env.transitionId, env.statusName)
             IN IF i = 0
                THEN /\ error' = TransitionUnavailable(workflow, env.transitionId, env.statusName)
                     /\ jpc' = "done"
                     /\ UNCHANGED request
                ELSE /\ request' = TransitionPayload(workflow[i])
                     /\ jpc' = "post"
                     /\ UNCHANGED error
  /\ UNCHANGED <<env, workflow, posts, calls, productVars, codecVars>>

\* the POST of the transition answers
PostTransition(ok) ==
  /\ jpc = "post"
  /\ posts' = posts + 1
  /\ error' = IF ok THEN NoError ELSE [NoError EXCEPT !.kind = "PostFailed"]
  /\ jpc' = "done"
  /\ UNCHANGED <<env, workflow, live, gets, request, calls, productVars, codecVars>>

\* the call has resolved or rejected; nothing of it is kept
StatusReturn ==
  /\ jpc = "done"
  /\ jpc' = "idle"
  /\ live' = <<>>
  /\ gets' = 0
  /\ request' = NoRequest
  /\ posts' = 0
  /\ error' = NoError
  /\ UNCHANGED <<env, workflow, calls, productVars, codecVars>>

\* the issue moves in its workflow on the tracker's side
WorkflowChanges(transitions) ==
  /\ calls > 0
  /\ jpc \in {"idle", "post"}
  /\ transitions # workflow
  /\ workflow' = transitions
  /\ UNCHANGED <<env, jpc, live, gets, request, posts, error, calls, productVars, codecVars>>

\* ---- description codec ---------------------------------------------------
MaxLen == 4

Chars == {"a", " ", "\n"}

Texts == UNION {[1..n -> Chars] : n \in 0..MaxLen}

CodecIdle ==
  /\ plain = <<>>
  /\ document = NoDesc
  /\ decoded = <<>>
  /\ codecAt = "off"

UpdateIssueEncodes ==
  /\ codecAt = "plain"
  /\ document' = EncodeDescription(plain)
  /\ codecAt' = "document"
  /\ UNCHANGED <<plain, decoded, productVars, jiraVars>>

WebhookDecodes ==
  /\ codecAt = "document"
  /\ decoded' = extractTextFromADF(document)
  /\ codecAt' = "decoded"
  /\ UNCHANGED <<plain, document, productVars, jiraVars>>

Init == ProductsInit /\ JiraIdle /\ CodecIdle

\* the steps by which worker w goes on with the handler it runs
Continue(w) ==
  \/ \E ok \in BOOLEAN, t \in 0..MaxTime : CreateIssue(w, ok, t)
  \/ CreateIssueSave(w)
  \/ UpdateSave(w)
  \/ \E ok \in BOOLEAN, t \in 0..MaxTime : UpdateIssue(w, ok, t)
  \/ UpdateIssueSave(w)
  \/ \E ok \in BOOLEAN, t \in 0..MaxTime, td \in 0..MaxTime : UpdateStatus(w, ok, t, td)
  \/ RemoveSave(w)
  \/ \E t \in 0..MaxTime : WebhookCreate(w, t)
  \/ WebhookSave(w)
  \/ Return(w)

\* concurrent handlers, on the request bodies that make the handlers race
RaceCreateDtos == {[name |-> <<"a">>, description |-> <<"x">>]}
RaceUpdateDtos == {[name |-> <<"b">>, description |-> Absent]}
RacePayloads ==
  [key : 0..MaxRequests, summary : {Absent}, status : {"Done"}, description : {NoDesc}]

Next ==
  \E w \in Procs :
    \/ \E d \in RaceCreateDtos : CreateProduct(w, d)
    \/ \E id \in 1..MaxRequests, d \in RaceUpdateDtos : UpdateFind(w, id, d)
    \/ \E id \in 1..MaxRequests, t \in 0..MaxTime : RemoveFind(w, id, t)
    \/ \E pl \in RacePayloads, t \in 0..MaxTime : WebhookFind(w, pl, t)
    \/ Continue(w)

Spec == Init /\ [][Next]_vars

\* the request bodies on offer while the sequential run may still take a request
Open(S) == IF requests < SeqRequests THEN S ELSE {}

\* the notification the tracker sends about an issue the service created: it
\* carries the issue's summary and description as the tracker holds them
IssuePayload(k) ==
  [key |-> k, summary |-> issues[k].summary, status |-> "", description |-> issues[k].description]

IssuePayloads == {IssuePayload(k) : k \in {j \in 1..Len(issues) : issues[j].productId # 0}}

\* one request at a time: worker w1 takes every request, each after the one before
\* it has returned
\* findProduct writes nothing and is followed here only, where its request budget
\* does not multiply the interleavings of the writing handlers
NextSeq ==
  \/ \E d \in Open(CreateDtos) : CreateProduct("w1", d)
  \/ \E id \in Open(1..MaxRequests), d \in UpdateDtos : UpdateFind("w1", id, d)
  \/ \E id \in Open(1..MaxRequests), t \in 0..MaxTime : RemoveFind("w1", id, t)
  \/ \E pl \in Open(Payloads \cup IssuePayloads), t \in 0..MaxTime : WebhookFind("w1", pl, t)
  \/ \E id \in Open(1..MaxRequests) : FindProduct("w1", id)
  \/ \E ok \in BOOLEAN, e \in FetchErrors : GetIssue("w1", ok, e)
  \/ Continue("w1")

SpecSeq == Init /\ [][NextSeq]_vars



\* JiraService.updateStatus called again and again under one configuration, while
\* the tracker's workflow moves on its own
InitJira ==
  /\ ProductsInit
  /\ CodecIdle
  /\ env \in Envs
  /\ workflow \in Workflows
  /\ jpc = "idle"
  /\ live = <<>>
  /\ gets = 0
  /\ request = NoRequest
  /\ posts = 0
  /\ error = NoError
  /\ calls = 0

NextJira ==
  \/ StatusStart
  \/ \E ok \in BOOLEAN : GetTransitions(ok)
  \/ \E ok \in BOOLEAN : PostTransition(ok)
  \/ StatusReturn
  \/ \E transitions \in Workflows : WorkflowChanges(transitions)

SpecJira == InitJira /\ [][NextJira]_vars

\* a description sent out through updateIssue and read back by the webhook handler
InitCodec ==
  /\ ProductsInit
  /\ JiraIdle
  /\ plain \in Texts
  /\ document = NoDesc
  /\ decoded = <<>>
  /\ codecAt = "plain"

NextCodec == UpdateIssueEncodes \/ WebhookDecodes

SpecCodec == InitCodec /\ [][NextCodec]_vars

\* ==== properties ==========================================================

Row(w) == store[product[w].id]

Finished(w, o) == pc[w] = "done" /\ op[w] = o /\ result[w].outcome = "return"

\* the fields in which two records differ
DiffFields(a, b) == {f \in DOMAIN a : a[f] # b[f]}

\* whether handleJiraWebhook, started now on payload pl, would call repo.save
WouldWrite(pl) ==
  /\ pl.key # NoKey
  /\ \/ FindByKey(pl.key) = {}
     \/ \E i \in FindByKey(pl.key) : Changelog(store[i], pl) # {}

SuccessTwin(w, t) ==
  IF loaded[w].jiraIssueKey # NoKey
  THEN AfterUpdateIssue(product[w], TRUE, t)
  ELSE AfterCreateIssue(product[w], TRUE, Len(issues) + 1, t)

RemoteFailed(w) ==
  /\ (Finished(w, "create") \/ Finished(w, "update"))
  /\ product[w].jiraSyncStatus = "FAILED"

RequestedValuesStored(w) ==
  /\ dto[w].name # Absent => Row(w).name = dto[w].name
  /\ dto[w].description # Absent => Row(w).description = dto[w].description

InFlight(id) ==
  \E w \in Procs :
    /\ product[w].id = id
    /\ pc[w] \in {"cj_call", "cj_save", "up_save", "up_call", "up_sync", "rm_call", "rm_save", "wh_save"}

\* C3: once every operation on a linked record has written, the stored syncStatus
\* is the outcome of the remote attempt on that record that completed last.
C3_SyncStatusOfLatestAttempt ==
  \A id \in Ids :
    (store[id].jiraIssueKey # NoKey /\ attempt[id] # "NONE" /\ ~InFlight(id)) =>
      store[id].jiraSyncStatus = attempt[id]

\* C4: no step lowers the stored lastSyncAt of any record.
C4_LastSyncAtMonotonic ==
  [][\A id \in Ids : store'[id].jiraLastSyncAt >= store[id].jiraLastSyncAt]_vars

\* a reader sees the record with update's new content and the sync fields from
\* before update's remote attempt, although that attempt has ended otherwise
TornRead(w) ==
  /\ op[w] = "update"
  /\ pc[w] = "up_sync"
  /\ <<loaded[w].name, loaded[w].description>> # <<product[w].name, product[w].description>>
  /\ <<Row(w).name, Row(w).description>> = <<product[w].name, product[w].description>>
  /\ <<Row(w).jiraSyncStatus, Row(w).jiraLastSyncAt>> =
       <<loaded[w].jiraSyncStatus, loaded[w].jiraLastSyncAt>>
  /\ <<Row(w).jiraSyncStatus, Row(w).jiraLastSyncAt>> #
       <<product[w].jiraSyncStatus, product[w].jiraLastSyncAt>>

\* C5: the store never shows an update's new name/description together with the
\* syncStatus and lastSyncAt from before that update's remote attempt.
C5_NoTornRead == \A w \in Procs : ~TornRead(w)

\* the columns handleJiraWebhook may change besides the staged ones
SyncFields == {"jiraSyncStatus", "jiraLastSyncAt"}

\* C6: the write of handleJiraWebhook changes, in the stored record, only the
\* staged fields, lastSyncAt and syncStatus.
C6_WebhookWritesOnlyStaged ==
  [][\A w \in Procs :
       (pc[w] = "wh_save" /\ pc'[w] = "done") =>
         DiffFields(store[product[w].id], store'[product[w].id])
           \subseteq (changelog[w] \cup SyncFields)]_vars

\* C7: when the remote transition of remove fails, remove goes on to its save,
\* which soft-deletes the record with syncStatus FAILED, and returns deleted = true.
C7_RemoveSurvivesFailedTransition ==
  [][\A w \in Procs :
       /\ (pc[w] = "rm_call" /\ pc'[w] # "rm_call") =>
            /\ pc'[w] = "rm_save"
            /\ product'[w].deletedAt # NoTime
            /\ product'[w].jiraSyncStatus \in {"OK", "FAILED"}
       /\ (pc[w] = "rm_save" /\ pc'[w] # "rm_save"
             /\ product[w].jiraIssueKey # NoKey /\ product[w].jiraSyncStatus = "FAILED") =>
            /\ store'[product[w].id].deletedAt # NoTime
            /\ store'[product[w].id].jiraSyncStatus = "FAILED"
            /\ result'[w].outcome = "return"
            /\ result'[w].deleted]_vars

C7_Witness ==
  \E w \in Procs :
    /\ Finished(w, "remove")
    /\ result[w].deleted
    /\ product[w].jiraIssueKey # NoKey
    /\ product[w].jiraSyncStatus = "FAILED"
    /\ Row(w).deletedAt # NoTime
    /\ Row(w).jiraSyncStatus = "FAILED"

\* C8: jiraTransitioned in the result of remove is true exactly when the remote
\* transition was attempted (the record is linked) and succeeded.
C8_TransitionedMeansSucceeded ==
  \A w \in Procs :
    Finished(w, "remove") =>
      (result[w].jiraTransitioned <=>
         (product[w].jiraIssueKey # NoKey /\ product[w].jiraSyncStatus = "OK"))

\* C9: remove reaches the updateStatus call only with a linked record; for a
\* record without key its save soft-deletes the row, leaves the stored syncStatus
\* and the record of remote attempts as they were, and returns deleted = true.
C9_UnlinkedRemoveSkipsTransition ==
  [][\A w \in Procs :
       /\ pc'[w] = "rm_call" => product'[w].jiraIssueKey # NoKey
       /\ (pc[w] = "rm_save" /\ pc'[w] # "rm_save" /\ product[w].jiraIssueKey = NoKey) =>
            /\ store'[product[w].id].deletedAt # NoTime
            /\ store'[product[w].id].jiraSyncStatus = store[product[w].id].jiraSyncStatus
            /\ attempt' = attempt
            /\ result'[w].deleted
            /\ ~result'[w].jiraTransitioned]_vars

C9_Witness ==
  \E w \in Procs :
    /\ Finished(w, "remove")
    /\ result[w].deleted
    /\ product[w].jiraIssueKey = NoKey
    /\ Row(w).deletedAt # NoTime
    /\ Row(w).jiraSyncStatus = "FAILED"

\* C10: the step that starts createProduct stores the new row with syncStatus
\* PENDING and reaches no remote issue; createIssue is requested only for a row
\* that is in the store.
C10_PersistedBeforeCreateIssue ==
  [][\A w \in Procs :
       /\ (pc[w] = "idle" /\ op'[w] = "create") =>
            /\ Len(store') = Len(store) + 1
            /\ store'[Len(store')] = product'[w]
            /\ product'[w].jiraSyncStatus = "PENDING"
            /\ product'[w].id = Len(store')
            /\ issues' = issues
       /\ (pc[w] = "cj_call" /\ pc'[w] # "cj_call") =>
            /\ product[w].id \in 1..Len(store)
            /\ \A k \in 1..Len(issues') :
                 issues'[k].productId # 0 => issues'[k].productId \in 1..Len(store)]_vars

C10_Witness ==
  \E w \in Procs :
    /\ op[w] = "create"
    /\ pc[w] = "cj_call"
    /\ product[w].id \in Ids
    /\ Row(w).jiraSyncStatus = "PENDING"
    /\ \A k \in 1..Len(issues) : issues[k].productId # product[w].id

\* C11: when the createIssue call of createProduct resolves with key K and id I,
\* the stored record has jiraIssueKey K, jiraIssueId I and syncStatus OK, and the
\* returned record carries K and I.
C11_CreateStoresReturnedKey ==
  \A w \in Procs :
    (pc[w] = "done" /\ op[w] = "create" /\ remote[w].outcome = "resolved") =>
      /\ remote[w].fn = "createIssue"
      /\ remote[w].jiraKey # NoKey
      /\ Row(w).jiraIssueKey = remote[w].jiraKey
      /\ Row(w).jiraIssueId = remote[w].jiraId
      /\ Row(w).jiraSyncStatus = "OK"
      /\ result[w].outcome = "return"
      /\ result[w].response.jiraIssueKey = remote[w].jiraKey
      /\ result[w].response.jiraIssueId = remote[w].jiraId

C11_Witness ==
  \E w \in Procs :
    /\ Finished(w, "create")
    /\ remote[w].outcome = "resolved"
    /\ result[w].response.jiraIssueKey = remote[w].jiraKey
    /\ Row(w).jiraIssueId = JiraId(Row(w).jiraIssueKey)
    /\ Row(w).jiraIssueKey # NoKey

\* C12: when the createIssue call of createProduct rejects, createProduct returns
\* the local record instead of raising, and the stored record has no jiraIssueKey,
\* no jiraIssueId and syncStatus FAILED.
C12_CreateFailureReturnsLocal ==
  \A w \in Procs :
    (pc[w] = "done" /\ op[w] = "create" /\ remote[w].outcome = "rejected") =>
      /\ result[w].outcome = "return"
      /\ result[w].response = filterProductResponse(Row(w))
      /\ result[w].response.name = dto[w].name
      /\ Row(w).jiraIssueKey = NoKey
      /\ Row(w).jiraIssueId = NoKey
      /\ Row(w).jiraSyncStatus = "FAILED"

C12_Witness ==
  \E w \in Procs :
    /\ Finished(w, "create")
    /\ remote[w].outcome = "rejected"
    /\ Row(w).jiraSyncStatus = "FAILED"
    /\ result[w].response.id = Row(w).id

\* C13: update saves the requested field values before it sends any remote
\* request, whatever the record's link; when the remote request is rejected,
\* update still returns, the stored syncStatus is FAILED and the saved field
\* values are still in the store.
C13_UpdatePersistsFirst ==
  [][\A w \in Procs :
       /\ (pc[w] = "up_save" /\ pc'[w] # "up_save") =>
            /\ remote[w].fn = "none"
            /\ pc'[w] \in {"up_call", "cj_call"}
            /\ writes'[w] = 1
            /\ RequestedValuesStored(w)'
       /\ (op[w] = "update" /\ remote[w].fn = "none" /\ remote'[w].fn # "none") =>
            /\ writes[w] = 1
            /\ RequestedValuesStored(w)
       /\ (op[w] = "update" /\ pc[w] # "done" /\ pc'[w] = "done"
             /\ remote'[w].outcome = "rejected") =>
            /\ result'[w].outcome = "return"
            /\ Row(w)'.jiraSyncStatus = "FAILED"
            /\ RequestedValuesStored(w)']_vars

C13_Witness ==
  \E w \in Procs :
    /\ Finished(w, "update")
    /\ remote[w].fn = "updateIssue"
    /\ remote[w].outcome = "rejected"
    /\ writes[w] = 2
    /\ dto[w].description # Absent
    /\ dto[w].description # loaded[w].description
    /\ Row(w).description = dto[w].description
    /\ Row(w).jiraSyncStatus = "FAILED"

\* the displayable fields the running update of worker w changed
NameUpdated(w) == dto[w].name # Absent /\ dto[w].name # loaded[w].name
DescriptionUpdated(w) == dto[w].description # Absent /\ dto[w].description # loaded[w].description

\* C14: the updateIssue request of update carries a summary only if the update
\* changed the name, and a description only if the update changed the description.
C14_PushesOnlyChangedFields ==
  \A w \in Procs :
    (op[w] = "update" /\ remote[w].fn = "updateIssue") =>
      /\ remote[w].summary # Absent => NameUpdated(w)
      /\ remote[w].description # Absent => DescriptionUpdated(w)

\* C15: update of a record without key returns normally and its one remote
\* request is createIssue; when that resolves the stored record has the returned
\* key and syncStatus OK, when it rejects the stored record has syncStatus FAILED,
\* no key, and the requested field values.
C15_UnlinkedUpdateCreatesLink ==
  \A w \in Procs :
    (pc[w] = "done" /\ op[w] = "update" /\ product[w].id # 0
       /\ loaded[w].jiraIssueKey = NoKey) =>
      /\ result[w].outcome = "return"
      /\ remote[w].fn = "createIssue"
      /\ RequestedValuesStored(w)
      /\ remote[w].outcome = "resolved" =>
           /\ remote[w].jiraKey # NoKey
           /\ Row(w).jiraIssueKey = remote[w].jiraKey
           /\ Row(w).jiraSyncStatus = "OK"
      /\ remote[w].outcome = "rejected" =>
           /\ Row(w).jiraIssueKey = NoKey
           /\ Row(w).jiraSyncStatus = "FAILED"

C15_Witness ==
  \E w \in Procs :
    /\ Finished(w, "update")
    /\ loaded[w].jiraIssueKey = NoKey
    /\ loaded[w].jiraSyncStatus = "FAILED"
    /\ remote[w].fn = "createIssue"
    /\ remote[w].outcome = "resolved"
    /\ Row(w).jiraIssueKey = remote[w].jiraKey
    /\ Row(w).jiraSyncStatus = "OK"

\* C16: update and remove either find a live record with the requested id or
\* fail with NotFound at once; a call that failed with NotFound has written
\* nothing to the store and has sent no remote request.
C16_NotFoundHasNoEffect ==
  [][\A w \in Procs :
       /\ (pc[w] = "idle" /\ op'[w] \in {"update", "remove"}) =>
            \/ /\ product'[w].id \in Ids
               /\ store[product'[w].id].deletedAt = NoTime
               /\ result'[w].outcome = "none"
            \/ /\ result'[w].outcome = "NotFound"
               /\ pc'[w] = "done"
               /\ product'[w] = NoProduct
               /\ store' = store
               /\ issues' = issues
               /\ writes'[w] = 0
               /\ remote'[w] = NoCall
       /\ (result[w].outcome = "NotFound" /\ pc'[w] # pc[w]) =>
            /\ pc'[w] = "idle"
            /\ store' = store
            /\ issues' = issues
            /\ remote'[w] = NoCall]_vars

C16_Witness ==
  \E w \in Procs :
    /\ pc[w] = "done"
    /\ op[w] \in {"update", "remove"}
    /\ result[w].outcome = "NotFound"
    /\ writes[w] = 0
    /\ remote[w] = NoCall
    /\ Len(store) > 0

\* C17: a stored record whose deletedAt is set is never changed by any later step.
C17_DeletedIsFrozen ==
  [][\A id \in Ids : store[id].deletedAt # NoTime => store'[id] = store[id]]_vars

\* C18: handleJiraWebhook on a payload without key returns { received: true } in
\* its first step, with no record read, no store write and no record created.
C18_NoKeyIsAcknowledgedNoOp ==
  [][\A w \in Procs :
       /\ (pc[w] = "idle" /\ op'[w] = "webhook" /\ payload'[w].key = NoKey) =>
            /\ pc'[w] = "done"
            /\ result'[w] = Received
            /\ product'[w] = NoProduct
            /\ changelog'[w] = {}
            /\ writes'[w] = 0
            /\ store' = store
            /\ issues' = issues
       /\ (op[w] = "webhook" /\ payload[w].key = NoKey /\ pc'[w] # pc[w]) =>
            /\ pc[w] = "done"
            /\ store' = store]_vars

C18_Witness ==
  \E w \in Procs :
    /\ Finished(w, "webhook")
    /\ payload[w].key = NoKey
    /\ result[w].received
    /\ writes[w] = 0
    /\ product[w] = NoProduct

\* the row handleJiraWebhook appends for the payload of worker w, with the given name
BackFilled(w, name) ==
  /\ Len(store') = Len(store) + 1
  /\ SubSeq(store', 1, Len(store)) = store
  /\ LET r == store'[Len(store')] IN
       /\ r.id = Len(store')
       /\ r.jiraIssueKey = payload[w].key
       /\ r.name = name
       /\ r.ticketStatus = (IF payload[w].status # "" THEN payload[w].status ELSE "NULL")
       /\ r.description = DescriptionText(payload[w].description)
       /\ r.jiraSyncStatus = "OK"
       /\ r.deletedAt = NoTime

C20_OnlyDifferingFieldsChange ==
  [][\A w \in Procs :
       (pc[w] = "wh_save" /\ pc'[w] # "wh_save") =>
         LET old == store[product[w].id]
             new == store'[product[w].id]
             pl == payload[w]
         IN /\ new.name # old.name => new.name = pl.summary
            /\ new.ticketStatus # old.ticketStatus => new.ticketStatus = pl.status
            /\ new.description # old.description =>
                 new.description = DescriptionText(pl.description)
            /\ DiffFields(old, new) \subseteq ({"name", "ticketStatus", "description"} \cup SyncFields)
            /\ DiffFields(old, new) \ SyncFields = changelog[w]
            /\ \A i \in Ids \ {product[w].id} : store'[i] = store[i]]_vars

C20_Witness ==
  \E w \in Procs :
    /\ Finished(w, "webhook")
    /\ writes[w] = 1
    /\ changelog[w] = {"ticketStatus"}
    /\ payload[w].summary = Row(w).name
    /\ payload[w].status = Row(w).ticketStatus

\* every field the payload carries has the value the record already holds
CarriedEqual(p, pl) ==
  /\ pl.summary # Absent => pl.summary = p.name
  /\ pl.status # "" => pl.status = p.ticketStatus
  /\ pl.description.kind # "none" => DescriptionText(pl.description) = p.description

WebhookStarts(w) == pc[w] = "idle" /\ pc'[w] # "idle" /\ op'[w] = "webhook"

\* C21: a webhook whose carried fields all equal those of the matching live record
\* finishes without any store write: the store, and with it the record's
\* jiraSyncStatus and jiraLastSyncAt, is as it was before the notification.
C21_EqualFieldsNoWrite ==
  [][\A w \in Procs :
       (/\ WebhookStarts(w)
        /\ payload'[w].key # NoKey
        /\ \E i \in FindByKey(payload'[w].key) : CarriedEqual(store[i], payload'[w]))
       => /\ pc'[w] = "done"
          /\ writes'[w] = 0
          /\ store' = store]_vars

C21_Witness ==
  \E w \in Procs :
    /\ Finished(w, "webhook")
    /\ product[w].id \in Ids
    /\ payload[w].summary # Absent /\ payload[w].status # "" /\ payload[w].description.kind # "none"
    /\ CarriedEqual(Row(w), payload[w])
    /\ writes[w] = 0

\* C24: whatever happens inside, a finished webhook handler has returned
\* { received: true } and has not raised: without key, without matching record,
\* and with a description document that cannot be decoded.
C24_AlwaysAcknowledges ==
  \A w \in Procs :
    (pc[w] = "done" /\ op[w] = "webhook") => result[w] = Received

\* a carried, non-empty value differs from the record's
CarriedDiffers(p, pl) ==
  \/ Truthy(pl.summary) /\ pl.summary # p.name
  \/ pl.status # "" /\ pl.status # p.ticketStatus
  \/ Truthy(DescriptionText(pl.description)) /\ DescriptionText(pl.description) # p.description

BusinessFields == {"name", "description", "ticketStatus", "jiraIssueKey", "jiraIssueId"}

RemoteCallPoints == {"cj_call", "up_call", "rm_call"}

\* C23: a webhook handler never stands before, and never has made, a call of
\* createIssue, updateIssue or updateStatus.
C23_WebhookMakesNoRemoteCall ==
  \A w \in Procs :
    op[w] = "webhook" => pc[w] \notin RemoteCallPoints /\ remote[w] = NoCall

C23_Witness ==
  \E w \in Procs :
    /\ Finished(w, "webhook")
    /\ writes[w] = 1
    /\ changelog[w] # {}
    /\ Row(w).jiraIssueKey = payload[w].key
    /\ remote[w] = NoCall

\* C25: once createProduct, update or remove has made its remote attempt and
\* finished, the record carries a lastSyncAt, whether the attempt succeeded or
\* failed.
C25_AttemptStampsLastSyncAt ==
  \A w \in Procs :
    (/\ pc[w] = "done"
     /\ op[w] \in {"create", "update", "remove"}
     /\ remote[w].outcome \in {"resolved", "rejected"})
    => Row(w).jiraLastSyncAt # NoTime

\* C26: a stored jiraSyncStatus that is OK or FAILED is never set back to PENDING,
\* whatever operations interleave.
C26_NeverBackToPending ==
  [][\A id \in Ids :
       store[id].jiraSyncStatus \in {"OK", "FAILED"} =>
         store'[id].jiraSyncStatus \in {"OK", "FAILED"}]_vars

\* the call has the tracker's list and the configured id is not in it
ConfiguredIdMissing ==
  /\ jpc = "done"
  /\ gets = 1
  /\ error.kind # "GetFailed"
  /\ Truthy(env.transitionId)
  /\ \A i \in 1..Len(live) : JsString(live[i].id) # env.transitionId

\* C27: when a transition id is configured and no transition of the fetched list
\* has that id, ids compared as strings, updateStatus throws an error that carries
\* the requested id and, for every transition of the list, its id, name and
\* destination, and sends no transition request, whatever status name is
\* configured; an id that is in the list as a number or as a string is the one sent.
C27_UnknownIdFails ==
  /\ ConfiguredIdMissing =>
       /\ error.kind = "TransitionUnavailable"
       /\ error.requestedId = env.transitionId
       /\ Len(error.available) = Len(live)
       /\ \A i \in 1..Len(live) :
            /\ error.available[i].id = JsString(live[i].id)
            /\ error.available[i].name = live[i].name
            /\ live[i].to # "" => error.available[i].to = live[i].to
       /\ posts = 0
       /\ request = NoRequest
  /\ (jpc = "post" /\ Truthy(env.transitionId)) => JsString(request.id) = env.transitionId

C27_Witness ==
  /\ ConfiguredIdMissing
  /\ env.statusName = "Dropped"
  /\ Len(live) = 2
  /\ live[1].id.type # live[2].id.type
  /\ \E i \in 1..Len(live) : live[i].to = env.statusName
  /\ \E i \in 1..Len(live) : live[i].name = env.statusName
  /\ error.kind = "TransitionUnavailable"
  /\ posts = 0

\* C28: a transition request is sent only after this call's own GET of the
\* transitions has answered, and carries the id of a transition of that answer;
\* every call starts without a list and takes the tracker's list as it is at its
\* GET; a call whose GET failed, or in whose list nothing matched, or that found no
\* configuration, sends no request.
C28_RequestFromFreshList ==
  [][/\ posts' > posts =>
          /\ gets = 1
          /\ error = NoError
          /\ request' = request
          /\ \E i \in 1..Len(live) : live[i].id = request.id
     /\ (jpc = "idle" /\ jpc' # "idle") => live' = <<>> /\ gets' = 0 /\ posts' = 0
     /\ (gets' > gets /\ error'.kind # "GetFailed") => live' = workflow
     /\ error'.kind \in {"NotConfigured", "GetFailed", "TransitionUnavailable"} => posts' = 0
    ]_vars

C28_Witness ==
  /\ jpc = "done"
  /\ calls = 2
  /\ posts = 1
  /\ error = NoError
  /\ request.id.type = "number"
  /\ \E i \in 1..Len(live) : live[i].id = request.id
  /\ \A i \in 1..Len(workflow) : workflow[i].id # request.id

SingleLine(s) == \A i \in 1..Len(s) : s[i] # "\n"

Trimmed(s) == s = <<>> \/ (~IsSpace(s[1]) /\ ~IsSpace(s[Len(s)]))

\* C29: a single-line string without leading or trailing whitespace, wrapped by
\* updateIssue and decoded by extractTextFromADF, comes back unchanged.
C29_CodecRoundTrip ==
  (codecAt = "decoded" /\ SingleLine(plain) /\ Trimmed(plain)) => decoded = plain

C29_Witness ==
  /\ codecAt = "decoded"
  /\ SingleLine(plain)
  /\ Trimmed(plain)
  /\ Len(plain) >= 3
  /\ \E i \in 1..Len(plain) : IsSpace(plain[i])
  /\ document = Doc(<<Paragraph(plain)>>)
  /\ decoded = plain

\* C30: findProduct changes neither the store nor the tracker; on a live record it
\* returns and does not raise: for a record without key, NO_KEY and no remote
\* call; for a rejected getIssue, FAILED with the error's message and ticket null;
\* the ticket is non-null exactly when the record has a key and getIssue resolved.
C30_FindProductReadsOnly ==
  [][\A w \in Procs :
       op'[w] = "find" =>
         /\ store' = store
         /\ issues' = issues
         /\ (pc'[w] = "done" /\ pc[w] # "done") =>
              LET r == result'[w]
                  p == product'[w]
                  call == remote'[w]
              IN IF p = NoProduct
                 THEN r.outcome = "NotFound" /\ call = NoCall
                 ELSE /\ p = store[p.id]
                      /\ r.outcome = "return"
                      /\ <<r.found.id, r.found.name, r.found.description>> =
                           <<p.id, p.name, p.description>>
                      /\ p.jiraIssueKey = NoKey =>
                           r.found.jiraFetchStatus = "NO_KEY" /\ call = NoCall
                      /\ call.outcome = "rejected" =>
                           /\ r.found.jiraFetchStatus = "FAILED"
                           /\ r.found.jiraFetchError \in FetchErrors
                           /\ r.found.ticket = NoTicket
                      /\ r.found.ticket # NoTicket <=>
                           (p.jiraIssueKey # NoKey /\ call.outcome = "resolved")
                      /\ r.found.ticket # NoTicket => r.found.ticket.key = p.jiraIssueKey]_vars

C30_Witness ==
  \E w \in Procs :
    /\ Finished(w, "find")
    /\ product[w].jiraIssueKey # NoKey
    /\ remote[w].fn = "getIssue"
    /\ remote[w].outcome = "rejected"
    /\ result[w].found.jiraFetchStatus = "FAILED"
    /\ result[w].found.ticket = NoTicket
    /\ Row(w) = product[w]

\* the call has the tracker's list and only a status name to go by
StatusNameOnly ==
  /\ jpc \in {"post", "done"}
  /\ gets = 1
  /\ error.kind # "GetFailed"
  /\ ~Truthy(env.transitionId)
  /\ env.statusName # ""

\* the transitions of the fetched list that lead to, or are called, the status name
NamedLive ==
  {i \in 1..Len(live) : live[i].to = env.statusName \/ live[i].name = env.statusName}

\* C31: with only a status name configured, updateStatus sends the id of the first
\* transition of the fetched list whose destination or whose own name is that
\* status name; when there is none it throws an error that names the status and
\* lists every fetched transition, and sends no request.
C31_FirstNamedTransition ==
  StatusNameOnly =>
    IF NamedLive = {}
    THEN /\ jpc = "done"
         /\ error.kind = "TransitionUnavailable"
         /\ error.requestedStatus = env.statusName
         /\ Len(error.available) = Len(live)
         /\ \A i \in 1..Len(live) :
              /\ error.available[i].id = JsString(live[i].id)
              /\ error.available[i].name = live[i].name
         /\ posts = 0
         /\ request = NoRequest
    ELSE \E i \in NamedLive :
           /\ \A j \in NamedLive : i <= j
           /\ request.id = live[i].id
           /\ error.kind \in {"none", "PostFailed"}

C31_Witness ==
  /\ StatusNameOnly
  /\ jpc = "done"
  /\ posts = 1
  /\ Len(live) = 2
  /\ NamedLive = {1, 2}
  /\ live[1].to # env.statusName
  /\ live[1].id # live[2].id
  /\ request.id = live[1].id

\* request.resolution is the id of allowed value k of field f, chosen as the spec says
ChosenFrom(f, k) ==
  LET vals == f.allowedValues
  IN /\ request.resolution = vals[k].id
     /\ \/ IsDroppedResolution(vals[k]) /\ \A j \in 1..(k - 1) : ~IsDroppedResolution(vals[j])
        \/ k = 1 /\ \A j \in 1..Len(vals) : ~IsDroppedResolution(vals[j])

C33_OneLiveRecordPerKey ==
  \A i, j \in Ids :
    (/\ store[i].jiraIssueKey # NoKey
     /\ store[i].jiraIssueKey = store[j].jiraIssueKey
     /\ store[i].deletedAt = NoTime
     /\ store[j].deletedAt = NoTime) => i = j

\* C34: a webhook that looks up a remote key held by a soft-deleted product does
\* not go on to create a new product record for that key.
C34_NoRecordAfterRemove ==
  [][\A w \in Procs :
       (pc[w] = "idle" /\ pc'[w] = "wh_create") =>
         ~\E i \in Ids : /\ store[i].deletedAt # NoTime
                         /\ store[i].jiraIssueKey = payload'[w].key]_vars

\* C35: for any single product at most one remote issue is ever created on its
\* behalf, in every sequence and interleaving of createProduct and update.
C35_OneIssuePerProduct ==
  \A i, j \in 1..Len(issues) :
    (issues[i].productId # 0 /\ issues[i].productId = issues[j].productId) => i = j

\* C36: once a record's jiraIssueKey has been stored, no later step changes or
\* clears it.
C36_StoredKeyIsStable ==
  [][\A id \in Ids :
       store[id].jiraIssueKey # NoKey =>
         store'[id].jiraIssueKey = store[id].jiraIssueKey]_vars

\* C37: whenever update on a linked product has pushed its values with
\* updateIssue and finished with jiraSyncStatus OK, the remote issue's summary
\* equals the local name and the remote issue's description decodes to the
\* local description.
C37_RemoteMirrorsLocalAfterUpdate ==
  \A w \in Procs :
    (/\ Finished(w, "update")
     /\ remote[w].fn = "updateIssue"
     /\ Row(w) = product[w]
     /\ Row(w).jiraSyncStatus = "OK") =>
       /\ issues[Row(w).jiraIssueKey].summary = Row(w).name
       /\ DescriptionText(issues[Row(w).jiraIssueKey].description) = Row(w).description

\* the row of key k is still as createProduct left it and issue k is still as
\* createIssue sent it
AsCreated(i, k) ==
  /\ store[i].jiraSyncStatus = "OK"
  /\ issues[k] = NewIssue(store[i].id, store[i].name,
                          CreateIssueText(store[i].description, store[i].id))

\* C38: after createProduct has succeeded, a webhook that carries the issue's
\* summary and description exactly as createIssue sent them finds nothing to
\* change and finishes without a write.
C38_CreationEchoIsNoOp ==
  [][\A w \in Procs :
       (/\ WebhookStarts(w)
        /\ payload'[w].key # NoKey
        /\ payload'[w].key <= Len(issues)
        /\ payload'[w] = IssuePayload(payload'[w].key)
        /\ \E i \in FindByKey(payload'[w].key) : AsCreated(i, payload'[w].key)) =>
         /\ pc'[w] = "done"
         /\ changelog'[w] = {}
         /\ result'[w] = Received]_vars

\* C39: a webhook whose summary, status name or description is absent or empty
\* (a description that decodes to the empty text included) never changes the
\* corresponding field of a record that existed before the step.
C39_EmptyIncomingKeepsField ==
  [][\A w \in Procs :
       (op'[w] = "webhook" /\ pc'[w] # pc[w] /\ ~DescriptionRaises(payload'[w].description)) =>
         \A id \in Ids :
           /\ ~Truthy(payload'[w].summary) => store'[id].name = store[id].name
           /\ payload'[w].status = "" => store'[id].ticketStatus = store[id].ticketStatus
           /\ ~Truthy(DescriptionText(payload'[w].description)) =>
                store'[id].description = store[id].description]_vars

C39_Witness ==
  \E w \in Procs :
    /\ Finished(w, "webhook")
    /\ writes[w] = 1
    /\ changelog[w] = {"ticketStatus"}
    /\ payload[w].summary = Absent
    /\ payload[w].description = Doc(<<Paragraph(<<" ">>)>>)
    /\ Row(w).name = <<"a">>
    /\ Row(w).description = <<"x">>
    /\ Row(w).ticketStatus = payload[w].status

====
